---- MODULE Spec2Model ----
(***************************************************************************)
(* sync_buddylive_to_tv_channels.py: fetch nine playlists, parse them into *)
(* blocks, filter, deduplicate by display name over one shared seen set,   *)
(* render main.m3u.                                                        *)
(*                                                                         *)
(* Text is modelled at character level: a str is a sequence of one-        *)
(* character strings, a list of lines is a sequence of those.  Two         *)
(* specifications share the definitions:                                   *)
(*   SpecParse  parse_m3u_blocks stepped line by line over every text of   *)
(*              at most MaxLines lines of LinePool, then the filter loop;  *)
(*   Spec       main(): nine fetches, the nine dedupe passes, the render   *)
(*              and the write, over the playlists of SourceTexts.          *)
(***************************************************************************)
EXTENDS Integers, Sequences, FiniteSets, TLC

VARIABLES
    ps,         \* parse_m3u_blocks: [lines, i, blocks, name, block, pc]
    flt,        \* fetch_and_filter's loop result: [kept, skipped]
    pc,         \* main(): position
    dry_run,    \* args.dry_run
    remote,     \* environment: what each URL served to this run (or Unfetched)
    attempts,   \* environment: the sources whose URL was requested, in order
    blocks,     \* live_blocks .. plex_blocks
    skipped,    \* live_skipped .. plex_skipped
    kept,       \* live_kept .. plex_kept
    dup,        \* live_dup .. plex_dup
    seen,       \* seen
    out_lines,  \* out_lines
    out_text,   \* out_text
    file,       \* environment: content of m3u_path
    exit,       \* main()'s return value (NoExit while running)
    reported    \* the counts printed on stdout (NoReport until printed)

vars == <<ps, flt, pc, dry_run, remote, attempts, blocks, skipped, kept, dup,
          seen, out_lines, out_text, file, exit, reported>>

parseVars == <<ps, flt>>
mainVars == <<pc, dry_run, remote, attempts, blocks, skipped, kept, dup,
              seen, out_lines, out_text, file, exit, reported>>

----------------------------------------------------------------------------
(* Bounds *)

\* SpecParse: the longest input, in lines
MaxLines == 3

\* Spec: how many of the nine sources may serve a non-empty playlist
MaxNonEmpty == 2

----------------------------------------------------------------------------
(* str operations *)

\* ABCDEFGHIJKLMNOPQRSTUVWXYZ
UPPER ==
    <<"A", "B", "C", "D", "E", "F", "G", "H", "I", "J", "K", "L", "M", "N", "O", "P", "Q", "R", "S", "T", "U", "V", "W", "X", "Y", "Z">>
\* abcdefghijklmnopqrstuvwxyz
LOWER ==
    <<"a", "b", "c", "d", "e", "f", "g", "h", "i", "j", "k", "l", "m", "n", "o", "p", "q", "r", "s", "t", "u", "v", "w", "x", "y", "z">>

LowerChar(c) ==
    IF \E k \in 1..Len(UPPER) : UPPER[k] = c
    THEN LOWER[CHOOSE k \in 1..Len(UPPER) : UPPER[k] = c]
    ELSE c

\* str.lower()
Lower(s) == [k \in 1..Len(s) |-> LowerChar(s[k])]

\* the characters str.strip() / str.lstrip() remove
IsSpace(c) == c \in {" ", "\t"}

RECURSIVE LStrip(_)
\* str.lstrip()
LStrip(s) ==
    IF s # <<>> /\ IsSpace(Head(s)) THEN LStrip(Tail(s)) ELSE s

RECURSIVE RStrip(_)
RStrip(s) ==
    IF s # <<>> /\ IsSpace(s[Len(s)]) THEN RStrip(SubSeq(s, 1, Len(s) - 1)) ELSE s

\* str.strip()
Strip(s) == RStrip(LStrip(s))

\* str.startswith(prefix)
StartsWith(s, prefix) ==
    Len(s) >= Len(prefix) /\ SubSeq(s, 1, Len(prefix)) = prefix

\* str.endswith(suffix)
EndsWith(s, suffix) ==
    Len(s) >= Len(suffix) /\ SubSeq(s, Len(s) - Len(suffix) + 1, Len(s)) = suffix

\* sub in s
Contains(s, sub) ==
    \E k \in 1..(Len(s) - Len(sub) + 1) : SubSeq(s, k, k + Len(sub) - 1) = sub

\* s.rfind(ch), 1-based; 0 when ch does not occur (Python: -1)
RFind(s, ch) ==
    IF \E k \in 1..Len(s) : s[k] = ch
    THEN CHOOSE k \in 1..Len(s) : s[k] = ch /\ \A m \in (k + 1)..Len(s) : s[m] # ch
    ELSE 0

RECURSIVE Join(_)
\* "\n".join(lines)
Join(lines) ==
    IF lines = <<>> THEN <<>>
    ELSE IF Len(lines) = 1 THEN lines[1]
    ELSE lines[1] \o <<"\n">> \o Join(Tail(lines))

IsBreak(c) == c \in {"\n", "\r"}

\* the first line boundary of text, 0 when it has none
FirstBreak(text) ==
    IF \E k \in 1..Len(text) : IsBreak(text[k])
    THEN CHOOSE k \in 1..Len(text) :
             IsBreak(text[k]) /\ \A m \in 1..(k - 1) : ~IsBreak(text[m])
    ELSE 0

RECURSIVE SplitLines(_)
\* str.splitlines(): break at \n, \r and \r\n; no empty last line after a final break
SplitLines(text) ==
    IF text = <<>> THEN <<>>
    ELSE LET k == FirstBreak(text)
             w == IF text[k] = "\r" /\ k < Len(text) /\ text[k + 1] = "\n" THEN 2 ELSE 1
         IN  IF k = 0 THEN <<text>>
             ELSE <<SubSeq(text, 1, k - 1)>> \o SplitLines(SubSeq(text, k + w, Len(text)))

----------------------------------------------------------------------------
(* Program constants *)

\* #EXTINF
MARKER_EXTINF ==
    <<"#", "E", "X", "T", "I", "N", "F">>
\* http
MARKER_HTTP ==
    <<"h", "t", "t", "p">>
\* fanduel
FANDUEL ==
    <<"f", "a", "n", "d", "u", "e", "l">>
\* moveonjoy
MOVEONJOY ==
    <<"m", "o", "v", "e", "o", "n", "j", "o", "y">>
\* bbc america sd
IGN_BBC_SD ==
    <<"b", "b", "c", " ", "a", "m", "e", "r", "i", "c", "a", " ", "s", "d">>
\* bbc america hd
IGN_BBC_HD ==
    <<"b", "b", "c", " ", "a", "m", "e", "r", "i", "c", "a", " ", "h", "d">>
\* bet hd
IGN_BET_HD ==
    <<"b", "e", "t", " ", "h", "d">>

\* main(): ignore_names
ignore_names == {FANDUEL, IGN_BBC_SD, IGN_BBC_HD, IGN_BET_HD}

\* the "[" main() passes as ignore_name_start
IGNORE_NAME_START == <<"[">>

----------------------------------------------------------------------------
(* parse_m3u_blocks *)

\* line.strip().startswith("#EXTINF")
IsExtinf(line) == StartsWith(Strip(line), MARKER_EXTINF)

\* lines[i].strip().startswith("http")
IsHttp(line) == StartsWith(Strip(line), MARKER_HTTP)

\* (line[last_comma + 1:].strip() if last_comma >= 0 else "").strip()
NameOf(line) ==
    LET last_comma == RFind(line, ",")
    IN  IF last_comma >= 1
        THEN Strip(Strip(SubSeq(line, last_comma + 1, Len(line))))
        ELSE Strip(<<>>)

\* lines = text.splitlines(); blocks = []; i = 0
PInit(text) ==
    [lines |-> SplitLines(text), i |-> 1, blocks |-> <<>>,
     name |-> <<>>, block |-> <<>>, pc |-> "outer"]

\* the outer while's test fails: return blocks
PReturn(p) == [p EXCEPT !.pc = "done"]

\* an #EXTINF line: name, block = [line], i += 1
PStart(p) ==
    [p EXCEPT !.name = NameOf(p.lines[p.i]),
              !.block = <<p.lines[p.i]>>,
              !.i = p.i + 1,
              !.pc = "inner"]

\* any other line outside a block: i += 1
PIgnore(p) == [p EXCEPT !.i = p.i + 1]

\* the inner while's body: block.append(lines[i]); i += 1
PAppend(p) ==
    [p EXCEPT !.block = Append(p.block, p.lines[p.i]), !.i = p.i + 1]

\* after the inner while: the http line, if any, closes the block; blocks.append
PClose(p) ==
    LET more == p.i <= Len(p.lines)
        block == IF more THEN Append(p.block, p.lines[p.i]) ELSE p.block
    IN  [p EXCEPT !.blocks = Append(p.blocks, [name |-> p.name, block |-> block]),
                  !.block = block,
                  !.i = IF more THEN p.i + 1 ELSE p.i,
                  !.pc = "outer"]

\* PStep gone wrong: the inner loop tests the line after the one it appends
PStepSkipsHttpTest(p) ==
    IF p.pc = "outer"
    THEN IF p.i > Len(p.lines) THEN PReturn(p)
         ELSE IF IsExtinf(p.lines[p.i]) THEN PStart(p)
         ELSE PIgnore(p)
    ELSE IF p.i < Len(p.lines) /\ ~IsHttp(p.lines[p.i + 1]) THEN PAppend(p)
         ELSE PClose(p)

\* PStep gone wrong: an #EXTINF line ends the inner loop too, and is left for
\* the outer loop to start the next block with
PStepBreaksAtExtinf(p) ==
    IF p.pc = "outer"
    THEN IF p.i > Len(p.lines) THEN PReturn(p)
         ELSE IF IsExtinf(p.lines[p.i]) THEN PStart(p)
         ELSE PIgnore(p)
    ELSE IF p.i <= Len(p.lines) /\ IsExtinf(p.lines[p.i])
         THEN [p EXCEPT !.blocks = Append(p.blocks, [name |-> p.name, block |-> p.block]),
                        !.pc = "outer"]
         ELSE IF p.i <= Len(p.lines) /\ ~IsHttp(p.lines[p.i]) THEN PAppend(p)
         ELSE PClose(p)

\* one step of the two nested while loops
PStep(p) ==
    IF p.pc = "outer"
    THEN IF p.i > Len(p.lines) THEN PReturn(p)
         ELSE IF IsExtinf(p.lines[p.i]) THEN PStart(p)
         ELSE PIgnore(p)
    ELSE IF p.i <= Len(p.lines) /\ ~IsHttp(p.lines[p.i]) THEN PAppend(p)
         ELSE PClose(p)

RECURSIVE PRun(_)
PRun(p) == IF p.pc = "done" THEN p ELSE PRun(PStep(p))

\* parse_m3u_blocks(text): a list of (name, block)
parse_m3u_blocks(text) == PRun(PInit(text)).blocks

----------------------------------------------------------------------------
(* should_skip, fetch_and_filter *)

\* should_skip gone wrong: the ignore_names test is missing
should_skip_no_ignore_names(name, ignore_name_start, names) ==
    \/ name = <<>>
    \/ ignore_name_start # <<>> /\ StartsWith(LStrip(name), ignore_name_start)

should_skip(name, ignore_name_start, names) ==
    \/ name = <<>>
    \/ ignore_name_start # <<>> /\ StartsWith(LStrip(name), ignore_name_start)
    \/ Lower(Strip(name)) \in names

\* which of the three `continue`s of the filter loop an entry takes, 0 for none
SkipReason(e) ==
    IF should_skip(e.name, IGNORE_NAME_START, ignore_names)
       \/ Contains(Lower(e.name), FANDUEL)
    THEN 1
    ELSE IF Contains(Lower(IF e.block # <<>> THEN e.block[1] ELSE <<>>), FANDUEL)
    THEN 2
    ELSE IF Contains(Lower(Join(e.block)), MOVEONJOY)
    THEN 3
    ELSE 0

RECURSIVE FilterFrom(_, _, _, _)
FilterFrom(entries, k, keptAcc, skippedAcc) ==
    IF k > Len(entries) THEN [kept |-> keptAcc, skipped |-> skippedAcc]
    ELSE IF SkipReason(entries[k]) # 0
         THEN FilterFrom(entries, k + 1, keptAcc, skippedAcc + 1)
         ELSE FilterFrom(entries, k + 1, Append(keptAcc, entries[k].block), skippedAcc)

\* filter_blocks gone wrong: the moveonjoy `continue` forgets skipped += 1
RECURSIVE FilterFromNoCount(_, _, _, _)
FilterFromNoCount(entries, k, keptAcc, skippedAcc) ==
    IF k > Len(entries) THEN [kept |-> keptAcc, skipped |-> skippedAcc]
    ELSE IF SkipReason(entries[k]) \in {1, 2}
         THEN FilterFromNoCount(entries, k + 1, keptAcc, skippedAcc + 1)
    ELSE IF SkipReason(entries[k]) = 3
         THEN FilterFromNoCount(entries, k + 1, keptAcc, skippedAcc)
    ELSE FilterFromNoCount(entries, k + 1, Append(keptAcc, entries[k].block), skippedAcc)

filter_blocks_no_count(entries) == FilterFromNoCount(entries, 1, <<>>, 0)

\* fetch_and_filter's loop over the parsed blocks: (kept, skipped)
filter_blocks(entries) == FilterFrom(entries, 1, <<>>, 0)

\* fetch_and_filter(url, ignore_names), given the text the URL served
fetch_and_filter(text) == filter_blocks(parse_m3u_blocks(text))

----------------------------------------------------------------------------
(* _name_from_block, dedupe_blocks_by_name *)

\* _name_from_block(block)
name_from_block(block) ==
    IF block = <<>> THEN <<>> ELSE NameOf(block[1])

RECURSIVE DedupeFrom(_, _, _, _, _)
DedupeFrom(bs, k, keptAcc, seenAcc, dupAcc) ==
    IF k > Len(bs) THEN [kept |-> keptAcc, seen |-> seenAcc, skipped_dup |-> dupAcc]
    ELSE LET key == Lower(name_from_block(bs[k]))
         IN  IF key \in seenAcc
             THEN DedupeFrom(bs, k + 1, keptAcc, seenAcc, dupAcc + 1)
             ELSE DedupeFrom(bs, k + 1, Append(keptAcc, bs[k]), seenAcc \cup {key}, dupAcc)

RECURSIVE DedupeFromCaseSensitive(_, _, _, _, _)
DedupeFromCaseSensitive(bs, k, keptAcc, seenAcc, dupAcc) ==
    IF k > Len(bs) THEN [kept |-> keptAcc, seen |-> seenAcc, skipped_dup |-> dupAcc]
    ELSE LET key == name_from_block(bs[k])
         IN  IF key \in seenAcc
             THEN DedupeFromCaseSensitive(bs, k + 1, keptAcc, seenAcc, dupAcc + 1)
             ELSE DedupeFromCaseSensitive(bs, k + 1, Append(keptAcc, bs[k]),
                                          seenAcc \cup {key}, dupAcc)

\* dedupe_blocks_by_name gone wrong: key = name, not name.lower()
dedupe_case_sensitive(bs, seen0) == DedupeFromCaseSensitive(bs, 1, <<>>, seen0, 0)

RECURSIVE DedupeFromLastWins(_, _, _, _, _)
DedupeFromLastWins(bs, k, keptAcc, seenAcc, dupAcc) ==
    IF k < 1 THEN [kept |-> keptAcc, seen |-> seenAcc, skipped_dup |-> dupAcc]
    ELSE LET key == Lower(name_from_block(bs[k]))
         IN  IF key \in seenAcc
             THEN DedupeFromLastWins(bs, k - 1, keptAcc, seenAcc, dupAcc + 1)
             ELSE DedupeFromLastWins(bs, k - 1, <<bs[k]>> \o keptAcc,
                                     seenAcc \cup {key}, dupAcc)

\* dedupe_blocks_by_name gone wrong: the list is scanned from its end
dedupe_last_wins(bs, seen0) == DedupeFromLastWins(bs, Len(bs), <<>>, seen0, 0)

\* dedupe_blocks_by_name(blocks, seen): (kept, seen, skipped_dup)
dedupe_blocks_by_name(bs, seen0) == DedupeFrom(bs, 1, <<>>, seen0, 0)

----------------------------------------------------------------------------
(* main(): the sources and the rendering *)

\* #EXTM3U
LnExtm3u ==
    <<"#", "E", "X", "T", "M", "3", "U">>
\* # Last synced: NOWZ
LnLastSynced ==
    <<"#", " ", "L", "a", "s", "t", " ", "s", "y", "n", "c", "e", "d", ":", " ", "N", "O", "W", "Z">>
\* # === live ===
LIVE_SECTION ==
    <<"#", " ", "=", "=", "=", " ", "l", "i", "v", "e", " ", "=", "=", "=">>
\* # === Backup ===
BACKUP_SECTION ==
    <<"#", " ", "=", "=", "=", " ", "B", "a", "c", "k", "u", "p", " ", "=", "=", "=">>
\* # === TheTVApp ===
THETVAPP_SECTION ==
    <<"#", " ", "=", "=", "=", " ", "T", "h", "e", "T", "V", "A", "p", "p", " ", "=", "=", "=">>
\* # === Xumo ===
XUMO_SECTION ==
    <<"#", " ", "=", "=", "=", " ", "X", "u", "m", "o", " ", "=", "=", "=">>
\* # === LocalNow ===
LOCALNOW_SECTION ==
    <<"#", " ", "=", "=", "=", " ", "L", "o", "c", "a", "l", "N", "o", "w", " ", "=", "=", "=">>
\* # === Tubi ===
TUBI_SECTION ==
    <<"#", " ", "=", "=", "=", " ", "T", "u", "b", "i", " ", "=", "=", "=">>
\* # === Roku ===
ROKU_SECTION ==
    <<"#", " ", "=", "=", "=", " ", "R", "o", "k", "u", " ", "=", "=", "=">>
\* # === Pluto TV ===
PLUTO_SECTION ==
    <<"#", " ", "=", "=", "=", " ", "P", "l", "u", "t", "o", " ", "T", "V", " ", "=", "=", "=">>
\* # === Plex ===
PLEX_SECTION ==
    <<"#", " ", "=", "=", "=", " ", "P", "l", "e", "x", " ", "=", "=", "=">>
\* the nine URLs, in the order main() fetches them
URLS ==
    <<"LIVE_URL", "BACKUP_URL", "THETVAPP_URL", "XUMO_URL", "LOCALNOW_URL",
      "TUBI_URL", "ROKU_URL", "PLUTO_URL", "PLEX_URL">>

\* the section headers, in the order main() appends them
SECTIONS ==
    <<LIVE_SECTION, BACKUP_SECTION, THETVAPP_SECTION, XUMO_SECTION, LOCALNOW_SECTION,
      TUBI_SECTION, ROKU_SECTION, PLUTO_SECTION, PLEX_SECTION>>

Sources == 1..Len(URLS)

RECURSIVE DedupeAllFrom(_, _, _, _, _)
DedupeAllFrom(bss, k, keptAcc, dupAcc, seenAcc) ==
    IF k > Len(URLS) THEN [kept |-> keptAcc, dup |-> dupAcc, seen |-> seenAcc]
    ELSE LET r == dedupe_blocks_by_name(bss[k], seenAcc)
         IN  DedupeAllFrom(bss, k + 1, [keptAcc EXCEPT ![k] = r.kept],
                           [dupAcc EXCEPT ![k] = r.skipped_dup], r.seen)

\* seen = set(); the nine dedupe_blocks_by_name calls, live first, Plex last
dedupe_all(bss) ==
    DedupeAllFrom(bss, 1, [k \in Sources |-> <<>>], [k \in Sources |-> 0], {})

RECURSIVE ExtendBlocks(_, _)
\* for block in kept: out_lines.extend(block); out_lines.append("")
ExtendBlocks(lines, bs) ==
    IF bs = <<>> THEN lines
    ELSE ExtendBlocks((lines \o Head(bs)) \o << <<>> >>, Tail(bs))

RECURSIVE RenderFrom(_, _, _, _)
RenderFrom(keptBy, order, k, lines) ==
    IF k > Len(order) THEN lines
    ELSE RenderFrom(keptBy, order, k + 1,
                    ExtendBlocks(Append(lines, SECTIONS[order[k]]), keptBy[order[k]]))

\* render_lines gone wrong: the Backup section is appended before the live one
render_lines_backup_first(keptBy) ==
    RenderFrom(keptBy, <<2, 1>> \o [k \in 1..(Len(URLS) - 2) |-> k + 2], 1,
               <<LnExtm3u, LnLastSynced, <<>> >>)

\* out_lines: the header, then each section header followed by its kept blocks
render_lines(keptBy) ==
    RenderFrom(keptBy, [k \in Sources |-> k], 1, <<LnExtm3u, LnLastSynced, <<>> >>)

\* render_text gone wrong: the endswith test is dropped
render_text_no_newline(lines) == Join(lines)

\* out_text = "\n".join(out_lines), plus "\n" unless it ends with one
render_text(lines) ==
    LET text == Join(lines)
    IN  IF ~EndsWith(text, <<"\n">>) THEN text \o <<"\n">> ELSE text

\* the per-source counts both print() calls format
Counts(keptBy, skippedBy, dupBy) ==
    [kept |-> [k \in Sources |-> Len(keptBy[k])], skipped |-> skippedBy, dup |-> dupBy]

----------------------------------------------------------------------------
(* Inputs *)

\* #EXTINF:0,CNN
LnCnn ==
    <<"#", "E", "X", "T", "I", "N", "F", ":", "0", ",", "C", "N", "N">>
\* #EXTINF:0
LnNoComma ==
    <<"#", "E", "X", "T", "I", "N", "F", ":", "0">>
\*  #EXTINF:0, [R]
LnBracket ==
    <<" ", "#", "E", "X", "T", "I", "N", "F", ":", "0", ",", " ", "[", "R", "]">>
\* #EXTINF:0,Bet HD 
LnBetHd ==
    <<"#", "E", "X", "T", "I", "N", "F", ":", "0", ",", "B", "e", "t", " ", "H", "D", " ">>
\* #EXTINF:0,FanDuel 1
LnFanduelName ==
    <<"#", "E", "X", "T", "I", "N", "F", ":", "0", ",", "F", "a", "n", "D", "u", "e", "l", " ", "1">>
\* #EXTINF:0 FANDUEL,TV
LnFanduelId ==
    <<"#", "E", "X", "T", "I", "N", "F", ":", "0", " ", "F", "A", "N", "D", "U", "E", "L", ",", "T", "V">>
\* http://a
LnUrl ==
    <<"h", "t", "t", "p", ":", "/", "/", "a">>
\*  http://MoveOnJoy.c
LnUrlMoveonjoy ==
    <<" ", "h", "t", "t", "p", ":", "/", "/", "M", "o", "v", "e", "O", "n", "J", "o", "y", ".", "c">>
\* #EXTVLCOPT
LnOpt ==
    <<"#", "E", "X", "T", "V", "L", "C", "O", "P", "T">>
\* #EXTINF:0,cnn
LnCnnLower ==
    <<"#", "E", "X", "T", "I", "N", "F", ":", "0", ",", "c", "n", "n">>
\* #EXTINF:0,ABC
LnAbc ==
    <<"#", "E", "X", "T", "I", "N", "F", ":", "0", ",", "A", "B", "C">>
\* #EXTINF:0,TV7
LnTv7 ==
    <<"#", "E", "X", "T", "I", "N", "F", ":", "0", ",", "T", "V", "7">>
\* #EXTINF:0,[R] TV7
LnBracketTv7 ==
    <<"#", "E", "X", "T", "I", "N", "F", ":", "0", ",", "[", "R", "]", " ", "T", "V", "7">>
\* http://b
LnUrlB ==
    <<"h", "t", "t", "p", ":", "/", "/", "b">>
\* SpecParse: the lines its inputs are made of
LinePool ==
    {LnCnn, LnNoComma, LnBracket, LnBetHd, LnFanduelName, LnFanduelId,
     LnUrl, LnUrlMoveonjoy, LnOpt, <<>>}

ParseInputs ==
    UNION {[1..n -> LinePool] : n \in 0..MaxLines}

\* Spec: the playlists a URL may serve
TxEmpty == <<>>
\* two channels, after a #EXTM3U header line
TxCnn == Join(<<LnExtm3u, LnCnn, LnUrl, LnTv7, LnUrlB>>) \o <<"\n">>
\* cnn then CNN in one source, CRLF line ends, no final line end
TxCnnTwice ==
    LnCnnLower \o <<"\r", "\n">> \o LnUrlB \o <<"\r", "\n">> \o LnCnn \o <<"\r", "\n">> \o LnUrl
\* a leading bracket and a fanduel tvg-id, both filtered; then ABC
TxRegional == Join(<<LnBracketTv7, LnUrl, LnFanduelId, LnUrl, LnAbc, LnUrlB>>) \o <<"\n">>
\* TV7 with an option line; CNN on a moveonjoy URL
TxTv7 == Join(<<LnTv7, LnOpt, LnUrlB, LnCnn, LnUrlMoveonjoy>>) \o <<"\n">>
\* the input ends before any http line, after two blank lines
TxDangling == LnTv7 \o <<"\n", "\n", "\n">>

SourceTexts ==
    {TxEmpty, TxCnn, TxCnnTwice, TxRegional, TxTv7, TxDangling}

\* not a str: the URL has not been read
Unfetched == <<"unfetched">>
\* main() has not returned
NoExit == 0 - 1
\* nothing printed yet
NoReport == [kept |-> <<>>, skipped |-> <<>>, dup |-> <<>>]
\* the content of m3u_path before the run
OldFile == <<"o", "l", "d", "\n">>

----------------------------------------------------------------------------
(* SpecParse: parse_m3u_blocks step by step, then the filter loop *)

MainIdle ==
    /\ pc = "idle"
    /\ dry_run = FALSE
    /\ remote = [k \in Sources |-> Unfetched]
    /\ attempts = <<>>
    /\ blocks = [k \in Sources |-> <<>>]
    /\ skipped = [k \in Sources |-> 0]
    /\ kept = [k \in Sources |-> <<>>]
    /\ dup = [k \in Sources |-> 0]
    /\ seen = {}
    /\ out_lines = <<>>
    /\ out_text = <<>>
    /\ file = OldFile
    /\ exit = NoExit
    /\ reported = NoReport

InitParse ==
    /\ \E ls \in ParseInputs : ps = PInit(Join(ls))
    /\ flt = [kept |-> <<>>, skipped |-> 0]
    /\ MainIdle

ParseReturn ==
    /\ ps.pc = "outer"
    /\ ps.i > Len(ps.lines)
    /\ ps' = PStep(ps)
    /\ UNCHANGED <<flt, mainVars>>

ParseStart ==
    /\ ps.pc = "outer"
    /\ ps.i <= Len(ps.lines)
    /\ IsExtinf(ps.lines[ps.i])
    /\ ps' = PStep(ps)
    /\ UNCHANGED <<flt, mainVars>>

ParseIgnore ==
    /\ ps.pc = "outer"
    /\ ps.i <= Len(ps.lines)
    /\ ~IsExtinf(ps.lines[ps.i])
    /\ ps' = PStep(ps)
    /\ UNCHANGED <<flt, mainVars>>

ParseAppend ==
    /\ ps.pc = "inner"
    /\ ps.i <= Len(ps.lines)
    /\ ~IsHttp(ps.lines[ps.i])
    /\ ps' = PStep(ps)
    /\ UNCHANGED <<flt, mainVars>>

ParseClose ==
    /\ ps.pc = "inner"
    /\ ~(ps.i <= Len(ps.lines) /\ ~IsHttp(ps.lines[ps.i]))
    /\ ps' = PStep(ps)
    /\ UNCHANGED <<flt, mainVars>>

\* fetch_and_filter's loop over the blocks parse_m3u_blocks returned
Filter ==
    /\ ps.pc = "done"
    /\ flt' = filter_blocks(ps.blocks)
    /\ ps' = [ps EXCEPT !.pc = "filtered"]
    /\ UNCHANGED mainVars

NextParse ==
    \/ ParseReturn
    \/ ParseStart
    \/ ParseIgnore
    \/ ParseAppend
    \/ ParseClose
    \/ Filter

\* the interpreter always runs the next statement
SpecParse == InitParse /\ [][NextParse]_vars /\ WF_vars(NextParse)

----------------------------------------------------------------------------
(* Spec: main() *)

ParseIdle ==
    /\ ps = [PInit(<<>>) EXCEPT !.pc = "idle"]
    /\ flt = [kept |-> <<>>, skipped |-> 0]

Init ==
    /\ ParseIdle
    /\ pc = "fetch"
    /\ dry_run \in BOOLEAN
    /\ remote = [k \in Sources |-> Unfetched]
    /\ attempts = <<>>
    /\ blocks = [k \in Sources |-> <<>>]
    /\ skipped = [k \in Sources |-> 0]
    /\ kept = [k \in Sources |-> <<>>]
    /\ dup = [k \in Sources |-> 0]
    /\ seen = {}
    /\ out_lines = <<>>
    /\ out_text = <<>>
    /\ file = OldFile
    /\ exit = NoExit
    /\ reported = NoReport

NonEmptyServed == Cardinality({k \in Sources : remote[k] \notin {Unfetched, TxEmpty}})

\* on_fetch_error gone wrong: the error is printed and the run goes on
on_fetch_error_continue(k) ==
    [pc |-> IF k = Len(URLS) THEN "dedupe" ELSE "fetch", exit |-> NoExit]

\* except Exception: print the error; return 1
on_fetch_error(k) == [pc |-> "done", exit |-> 1]

\* try: x_blocks, x_skipped = fetch_and_filter(X_URL, ignore_names)
FetchOk ==
    /\ pc = "fetch"
    /\ LET k == Len(attempts) + 1
       IN  \E text \in SourceTexts :
               /\ text # TxEmpty => NonEmptyServed < MaxNonEmpty
               /\ remote' = [remote EXCEPT ![k] = text]
               /\ attempts' = Append(attempts, k)
               /\ LET r == fetch_and_filter(text)
                  IN  /\ blocks' = [blocks EXCEPT ![k] = r.kept]
                      /\ skipped' = [skipped EXCEPT ![k] = r.skipped]
               /\ pc' = IF k = Len(URLS) THEN "dedupe" ELSE "fetch"
    /\ UNCHANGED <<parseVars, dry_run, kept, dup, seen, out_lines, out_text, file,
                   exit, reported>>

\* fetch_and_filter raises (urlopen, read): the except branch
FetchFail ==
    /\ pc = "fetch"
    /\ LET k == Len(attempts) + 1
       IN  /\ attempts' = Append(attempts, k)
           /\ pc' = on_fetch_error(k).pc
           /\ exit' = on_fetch_error(k).exit
    /\ UNCHANGED <<parseVars, dry_run, remote, blocks, skipped, kept, dup, seen,
                   out_lines, out_text, file, reported>>

\* seen = set() and the nine dedupe passes
Dedupe ==
    /\ pc = "dedupe"
    /\ LET r == dedupe_all(blocks)
       IN  /\ kept' = r.kept
           /\ dup' = r.dup
           /\ seen' = r.seen
    /\ pc' = "render"
    /\ UNCHANGED <<parseVars, dry_run, remote, attempts, blocks, skipped, out_lines,
                   out_text, file, exit, reported>>

\* out_lines and out_text are built
Render ==
    /\ pc = "render"
    /\ out_lines' = render_lines(kept)
    /\ out_text' = render_text(render_lines(kept))
    /\ pc' = "report"
    /\ UNCHANGED <<parseVars, dry_run, remote, attempts, blocks, skipped, kept, dup,
                   seen, file, exit, reported>>

\* write_on_dry_run gone wrong: the dry run writes the file all the same
write_on_dry_run_always(old, text) == text

\* if args.dry_run: the file is left alone
write_on_dry_run(old, text) == old

\* if args.dry_run: print "Would write ..."; return 0
DryRun ==
    /\ pc = "report"
    /\ dry_run
    /\ file' = write_on_dry_run(file, out_text)
    /\ reported' = Counts(kept, skipped, dup)
    /\ exit' = 0
    /\ pc' = "done"
    /\ UNCHANGED <<parseVars, dry_run, remote, attempts, blocks, skipped, kept, dup,
                   seen, out_lines, out_text>>

\* m3u_path.write_text(out_text); print "Synced ..."; return 0
Write ==
    /\ pc = "report"
    /\ ~dry_run
    /\ file' = out_text
    /\ reported' = Counts(kept, skipped, dup)
    /\ exit' = 0
    /\ pc' = "done"
    /\ UNCHANGED <<parseVars, dry_run, remote, attempts, blocks, skipped, kept, dup,
                   seen, out_lines, out_text>>

Next ==
    \/ FetchOk
    \/ FetchFail
    \/ Dedupe
    \/ Render
    \/ DryRun
    \/ Write

Spec == Init /\ [][Next]_vars

----------------------------------------------------------------------------
(* Vocabulary of the properties *)

\* the elements of s at the indices in idx, in the order of s
SubseqAt(s, idx) ==
    [n \in 1..Cardinality(idx) |->
        s[CHOOSE j \in idx : Cardinality({m \in idx : m < j}) = n - 1]]

\* the display name of a block: the text after the last comma of its first line
DisplayName(block) == NameOf(block[1])

\* parse_m3u_blocks and fetch_and_filter on each playlist a URL may serve,
\* evaluated once
ParsedText == [text \in SourceTexts |-> parse_m3u_blocks(text)]
FilteredText == [text \in SourceTexts |-> fetch_and_filter(text)]

\* the entries the parser produces for what source k served
Parsed(k) == ParsedText[remote[k]]

\* what the filter makes of what source k served: [kept, skipped]
Filtered(k) == FilteredText[remote[k]]

\* the nine dedupe passes have run
Deduped == pc \in {"render", "report"} \/ (pc = "done" /\ exit = 0)

\* out_lines and out_text have been built
Rendered == pc = "report" \/ (pc = "done" /\ exit = 0)

\* the positions of the retained entries: <<source, index in kept[source]>>
Retained == UNION {{<<k, j>> : j \in 1..Len(kept[k])} : k \in Sources}

\* position a comes before position b: an earlier source, or earlier in the same one
Precedes(a, b) == a[1] < b[1] \/ (a[1] = b[1] /\ a[2] < b[2])

----------------------------------------------------------------------------
(* C1 *)

\* C1: once the nine dedupe passes have run over the shared seen set, no two
\* retained entries, in one source or across sources, have display names that
\* are equal after lowercasing.
C1_NoTwoRetainedShareName ==
    Deduped =>
        \A a \in Retained : \A b \in Retained :
            a # b => Lower(DisplayName(kept[a[1]][a[2]]))
                     # Lower(DisplayName(kept[b[1]][b[2]]))

\* a duplicate was dropped within one source, entries are retained in two sources
C1_Witness ==
    /\ Deduped
    /\ \E k \in Sources : remote[k] = TxCnnTwice /\ dup[k] = 1 /\ Len(kept[k]) = 1
    /\ \E k \in Sources : remote[k] = TxTv7 /\ Len(kept[k]) = 1

----------------------------------------------------------------------------
(* C2 *)

\* the filter-surviving entry j of source k has a filter-surviving predecessor
\* with the same lowercased display name
HasEarlierSameName(k, j) ==
    \E k2 \in Sources : \E j2 \in 1..Len(blocks[k2]) :
        /\ Precedes(<<k2, j2>>, <<k, j>>)
        /\ Lower(DisplayName(blocks[k2][j2])) = Lower(DisplayName(blocks[k][j]))

\* C2: first occurrence wins: of the filter-surviving entries of a source,
\* exactly those with no same-named (lowercased) filter-surviving predecessor
\* are retained, in order, and the rest are counted as duplicates; the seen set
\* holds the lowercased names of the filter-surviving entries and nothing else,
\* so an entry the filter dropped never makes a later entry a duplicate.
C2_FirstOccurrenceWins ==
    Deduped =>
        /\ \A k \in Sources :
              /\ blocks[k] = Filtered(k).kept
              /\ kept[k] = SubseqAt(blocks[k],
                                    {j \in 1..Len(blocks[k]) : ~HasEarlierSameName(k, j)})
              /\ dup[k] = Cardinality({j \in 1..Len(blocks[k]) : HasEarlierSameName(k, j)})
        /\ seen = UNION {{Lower(DisplayName(blocks[k][j])) : j \in 1..Len(blocks[k])} :
                         k \in Sources}

\* TV7 is retained and the CNN beside it filtered; a later source's cnn is
\* retained all the same, and the CNN after it dropped as its duplicate
C2_Witness ==
    /\ Deduped
    /\ \E k \in Sources : \E k2 \in Sources :
          /\ k < k2
          /\ remote[k] = TxTv7 /\ Len(Parsed(k)) = 2 /\ Len(blocks[k]) = 1
          /\ remote[k2] = TxCnnTwice /\ Len(blocks[k2]) = 2
          /\ Len(kept[k2]) = 1 /\ DisplayName(kept[k2][1]) = <<"c", "n", "n">>
          /\ dup[k2] = 1

----------------------------------------------------------------------------
(* C3 *)

\* the sources whose fetch raised: requested, nothing read
FailedFetches == {k \in 1..Len(attempts) : remote[attempts[k]] = Unfetched}

\* C3: the sources are requested one after another in priority order; when a
\* fetch fails the run has ended with exit code 1, the failing source is the
\* last one requested and the output file is as it was before the run; exit
\* code 0 means all nine fetches succeeded.
C3_AllOrNothingOnFetchFailure ==
    /\ attempts = [k \in 1..Len(attempts) |-> k]
    /\ Len(attempts) <= Len(URLS)
    /\ \A k \in FailedFetches :
          /\ pc = "done"
          /\ exit = 1
          /\ k = Len(attempts)
          /\ file = OldFile
    /\ exit = 0 => /\ Len(attempts) = Len(URLS)
                   /\ \A k \in Sources : remote[k] # Unfetched
    /\ exit \in {NoExit, 0, 1}
    /\ pc = "done" <=> exit # NoExit

\* the fifth fetch failed after a non-empty playlist was read
C3_Witness ==
    /\ pc = "done"
    /\ exit = 1
    /\ Len(attempts) = 5
    /\ FailedFetches = {5}
    /\ \E k \in 1..4 : blocks[k] # <<>>

----------------------------------------------------------------------------
(* C4 *)

\* C4: for every source, the number of entries in its section (the retained
\* ones) is the number of entries the parser produced for it, minus its
\* filter-skipped count, minus its duplicate-skipped count; these are the
\* counts the run reports.
C4_CountConservation ==
    /\ Deduped =>
          \A k \in Sources :
              Len(kept[k]) = Len(Parsed(k)) - skipped[k] - dup[k]
    /\ (pc = "done" /\ exit = 0) =>
          /\ reported.kept = [k \in Sources |-> Len(kept[k])]
          /\ reported.skipped = skipped
          /\ reported.dup = dup

\* one source has an entry filtered and an entry dropped as a duplicate
C4_Witness ==
    /\ pc = "done"
    /\ exit = 0
    /\ \E k \in Sources :
          /\ Len(Parsed(k)) = 2 /\ skipped[k] = 1 /\ dup[k] = 1 /\ kept[k] = <<>>
    /\ \E k \in Sources : Len(kept[k]) = 2

----------------------------------------------------------------------------
(* C5 *)

RECURSIVE TrailingNewlines(_)
\* how many "\n" characters the text ends with
TrailingNewlines(text) ==
    IF text # <<>> /\ text[Len(text)] = "\n"
    THEN 1 + TrailingNewlines(SubSeq(text, 1, Len(text) - 1))
    ELSE 0

RECURSIVE TrailingEmptyLines(_)
\* how many empty lines the block ends with
TrailingEmptyLines(block) ==
    IF block # <<>> /\ block[Len(block)] = <<>>
    THEN 1 + TrailingEmptyLines(SubSeq(block, 1, Len(block) - 1))
    ELSE 0

\* the last source, Plex
LastSource == Len(URLS)

\* C5 as stated: the rendered text ends with exactly one newline character,
\* whatever the sources held.
C5_ExactlyOneTrailingNewline ==
    Rendered => TrailingNewlines(out_text) = 1

\* C5, amended: the rendered text ends with at least one newline character;
\* with exactly one when the last section is empty or its last retained entry
\* does not end with an empty line, and with n + 1 when that entry (emitted
\* without an http line) ends with n empty lines.
C5_TrailingNewlines ==
    Rendered =>
        /\ EndsWith(out_text, <<"\n">>)
        /\ TrailingNewlines(out_text) =
              1 + (IF kept[LastSource] = <<>> THEN 0
                   ELSE TrailingEmptyLines(kept[LastSource][Len(kept[LastSource])]))

\* the last retained Plex entry has no http line and ends with two empty lines
C5_Witness ==
    /\ Rendered
    /\ remote[LastSource] = TxDangling
    /\ kept[LastSource] = << <<LnTv7, <<>>, <<>> >> >>
    /\ TrailingNewlines(out_text) = 3

----------------------------------------------------------------------------
(* C6 *)

\* where the header of section k stands in out_lines
HeaderPositions(k) == {n \in 1..Len(out_lines) : out_lines[n] = SECTIONS[k]}

HeaderPosition(k) == CHOOSE n \in HeaderPositions(k) : TRUE

\* the lines under the header of section k, up to the next header or the end
SectionBody(k) ==
    SubSeq(out_lines, HeaderPosition(k) + 1,
           IF k = Len(URLS) THEN Len(out_lines) ELSE HeaderPosition(k + 1) - 1)

RECURSIVE EntriesAsLines(_)
\* entries as they stand in a section: each one's lines, then an empty line
EntriesAsLines(entries) ==
    IF entries = <<>> THEN <<>>
    ELSE (Head(entries).block \o << <<>> >>) \o EntriesAsLines(Tail(entries))

\* C6: each section header stands once in the output, in the source priority
\* order, after the three header lines; what stands under the header of a
\* source is an order-preserving subsequence of the entries parsed from that
\* source, each followed by an empty line.
C6_OutputOrdering ==
    Rendered =>
        /\ \A k \in Sources : Cardinality(HeaderPositions(k)) = 1
        /\ HeaderPosition(1) = 4
        /\ \A k \in Sources : k < Len(URLS) => HeaderPosition(k) < HeaderPosition(k + 1)
        /\ \A k \in Sources :
              \E idx \in SUBSET (1..Len(Parsed(k))) :
                  SectionBody(k) = EntriesAsLines(SubseqAt(Parsed(k), idx))

\* one section holds two entries, a later one holds one
C6_Witness ==
    /\ Rendered
    /\ \E k \in Sources : \E k2 \in Sources :
          /\ k < k2
          /\ Len(kept[k]) = 2
          /\ SectionBody(k) = <<LnCnn, LnUrl, <<>>, LnTv7, LnUrlB, <<>> >>
          /\ Len(Parsed(k2)) = 3
          /\ SectionBody(k2) = <<LnAbc, LnUrlB, <<>> >>

----------------------------------------------------------------------------
(* C8 *)

\* the counts a run over the served playlists reports, whatever its mode
CountsOf(served) ==
    LET filtered == [k \in Sources |-> FilteredText[served[k]]]
        deduped == dedupe_all([k \in Sources |-> filtered[k].kept])
    IN  [kept |-> [k \in Sources |-> Len(deduped.kept[k])],
         skipped |-> [k \in Sources |-> filtered[k].skipped],
         dup |-> deduped.dup]

----------------------------------------------------------------------------
(* C7, under SpecParse *)

\* the six rules of the filter, as the specification lists them
Rule1(e) == e.name = <<>>
Rule2(e) == StartsWith(LStrip(e.name), <<"[">>)
Rule3(e) == Lower(Strip(e.name)) \in {FANDUEL, IGN_BBC_SD, IGN_BBC_HD, IGN_BET_HD}
Rule4(e) == Contains(Lower(e.name), FANDUEL)
Rule5(e) == Contains(Lower(e.block[1]), FANDUEL)
Rule6(e) == Contains(Lower(Join(e.block)), MOVEONJOY)

AnyRule(e) == Rule1(e) \/ Rule2(e) \/ Rule3(e) \/ Rule4(e) \/ Rule5(e) \/ Rule6(e)

\* the parsed entries a rule matches
Matching(entries) == {j \in 1..Len(entries) : AnyRule(entries[j])}

\* C7: the filter drops an entry if and only if one of the six rules matches
\* it: the blocks it keeps are those of the entries no rule matches, in order,
\* and its skipped count is the number of entries some rule matches.
C7_FilterDropsIffRuleMatches ==
    ps.pc = "filtered" =>
        /\ flt.kept = [n \in 1..(Len(ps.blocks) - Cardinality(Matching(ps.blocks))) |->
                          SubseqAt(ps.blocks,
                                   (1..Len(ps.blocks)) \ Matching(ps.blocks))[n].block]
        /\ flt.skipped = Cardinality(Matching(ps.blocks))

\* one entry is kept; another, whose name no rule matches, is dropped for the
\* moveonjoy in its URL
C7_Witness ==
    /\ ps.pc = "filtered"
    /\ Len(flt.kept) = 1
    /\ flt.skipped = 1
    /\ \E j \in 1..Len(ps.blocks) :
          LET e == ps.blocks[j]
          IN  /\ Rule6(e)
              /\ ~(Rule1(e) \/ Rule2(e) \/ Rule3(e) \/ Rule4(e) \/ Rule5(e))

----------------------------------------------------------------------------
(* C9, under SpecParse *)

\* parse_m3u_blocks has returned
ParserReturned == ps.pc \in {"done", "filtered"}

\* the input lines that start with #EXTINF once trimmed
ExtinfLines == {k \in 1..Len(ps.lines) : IsExtinf(ps.lines[k])}

\* C9 as stated: every #EXTINF line begins an entry of its own: as many
\* entries as #EXTINF lines, the j-th entry beginning with the j-th of them.
C9_EveryExtinfBeginsEntry ==
    ParserReturned =>
        /\ Len(ps.blocks) = Cardinality(ExtinfLines)
        /\ \A j \in 1..Len(ps.blocks) :
              ps.blocks[j].block[1] = SubseqAt(ps.lines, ExtinfLines)[j]

\* an #EXTINF line that follows another with no http line in between
FollowsOpenExtinf(k) ==
    \E q \in ExtinfLines :
        /\ q < k
        /\ \A m \in (q + 1)..(k - 1) : ~IsHttp(ps.lines[m])

\* the #EXTINF lines scanned while no entry is open
Openers == {k \in ExtinfLines : ~FollowsOpenExtinf(k)}

\* the input line the j-th entry begins at
OpenerOf(j) == CHOOSE k \in Openers : Cardinality({m \in Openers : m < k}) = j - 1

\* C9, amended: an #EXTINF line begins a new entry unless it follows another
\* #EXTINF line with no http line in between; such a line is appended to the
\* open entry like any other line.  There are as many entries as #EXTINF lines
\* of the first kind, the j-th entry is the run of input lines beginning at the
\* j-th of them, named after it, and every #EXTINF line of the second kind
\* lies inside one of these runs.
C9_ExtinfBeginsEntryUnlessOneIsOpen ==
    ParserReturned =>
        /\ Len(ps.blocks) = Cardinality(Openers)
        /\ \A j \in 1..Len(ps.blocks) :
              /\ ps.blocks[j].block =
                    SubSeq(ps.lines, OpenerOf(j),
                           OpenerOf(j) + Len(ps.blocks[j].block) - 1)
              /\ ps.blocks[j].name = NameOf(ps.lines[OpenerOf(j)])
        /\ \A k \in ExtinfLines \ Openers :
              \E j \in 1..Len(ps.blocks) :
                  /\ OpenerOf(j) < k
                  /\ k < OpenerOf(j) + Len(ps.blocks[j].block)

\* two #EXTINF lines, then an http line: one entry of three lines
C9_Witness ==
    /\ ParserReturned
    /\ Len(ps.lines) = 3
    /\ ExtinfLines = {1, 2}
    /\ IsHttp(ps.lines[3])
    /\ Len(ps.blocks) = 1
    /\ Len(ps.blocks[1].block) = 3

----------------------------------------------------------------------------
(* C10, under SpecParse *)

\* the entries emitted so far are the runs of input lines beginning at starts
RunsAt(starts) ==
    \A j \in 1..Len(ps.blocks) :
        LET b == ps.blocks[j].block
            last == starts[j] + Len(b) - 1
        IN  /\ last <= Len(ps.lines)
            /\ b = SubSeq(ps.lines, starts[j], last)
            /\ j < Len(ps.blocks) => last < starts[j + 1]
            /\ ~IsHttp(b[Len(b)]) => j = Len(ps.blocks) /\ last = Len(ps.lines)

\* every entry emitted so far starts with an #EXTINF line and holds at most
\* one http line, its last; the entries are disjoint runs of input lines, in
\* input order; an entry with no http line is the last one and runs to the end
\* of the input
EntryShape ==
    /\ \A j \in 1..Len(ps.blocks) :
          LET b == ps.blocks[j].block
          IN  /\ b # <<>>
              /\ IsExtinf(b[1])
              /\ \A m \in 1..(Len(b) - 1) : ~IsHttp(b[m])
    /\ \E starts \in [1..Len(ps.blocks) -> 1..Len(ps.lines)] : RunsAt(starts)

\* what is left to do: twice the lines not yet scanned, plus the position
Measure ==
    2 * (Len(ps.lines) + 1 - ps.i)
    + (IF ps.pc = "inner" THEN 2 ELSE IF ps.pc = "outer" THEN 1 ELSE 0)

\* C10: the parser terminates on every input (until it has returned it can
\* take a step, and every step lowers Measure, which is never negative), and
\* every entry it emits has the shape EntryShape states.
C10_EntryShapeAndTermination ==
    /\ [](EntryShape /\ Measure >= 0)
    /\ [](ps.pc \in {"outer", "inner"} => ENABLED NextParse)
    /\ [][ps.pc \in {"outer", "inner"} => Measure' < Measure]_vars

\* a complete entry, then one the input ended in the middle of
C10_Witness ==
    /\ ps.pc = "done"
    /\ Len(ps.lines) = 3
    /\ Len(ps.blocks) = 2
    /\ IsHttp(ps.blocks[1].block[2])
    /\ Len(ps.blocks[2].block) = 1

====
